---- MODULE Spec2Model ----
(***************************************************************************)
(* Model of wyoming_silero: the streaming sentence segmentation engine     *)
(* (sentence_boundary.py), the per-connection session handler (handler.py) *)
(* and the shared synthesis gate (speech_tts.py).                          *)
(*                                                                         *)
(* Text is a sequence of characters; a character is a one-element string.  *)
(* Characters outside ASCII are written as named tokens ("ELLIPSIS",       *)
(* "EMDASH", "LAQUO", "RAQUO", "cyr_g", "cyr_M", ...), one token per       *)
(* character, so that lengths and indices are those of the Python strings. *)
(***************************************************************************)
EXTENDS Integers, Sequences, FiniteSets, TLC

\* ------------------------------------------------------------------------
\* sentence_boundary.py: configuration
\* ------------------------------------------------------------------------
HARD_LIMIT == 350

MERGE_BUFFER_LIMIT == 20

\* ------------------------------------------------------------------------
\* Character classes used by the regular expressions
\* ------------------------------------------------------------------------
LatinUpper ==
  {"A","B","C","D","E","F","G","H","I","J","K","L","M",
   "N","O","P","Q","R","S","T","U","V","W","X","Y","Z"}

LatinLower ==
  {"a","b","c","d","e","f","g","h","i","j","k","l","m",
   "n","o","p","q","r","s","t","u","v","w","x","y","z"}

CyrUpper == {"cyr_M", "cyr_P"}

CyrLower == {"cyr_g", "cyr_u", "cyr_l", "cyr_o"}

\* \p{IsCyrillic}
Cyrillic == CyrUpper \cup CyrLower

\* \p{Lu}
Lu == LatinUpper \cup CyrUpper

\* \p{Ll}
Ll == LatinLower \cup CyrLower

\* \p{L}
Letter == Lu \cup Ll

\* \d and str.isdigit()
Digit == {"0","1","2","3","4","5","6","7","8","9"}

\* \w, the characters between which \b finds no boundary
WordChar == Letter \cup Digit \cup {"_"}

\* \s
Whitespace == {" ", "\n", "\t"}

\* [.!?...] of SENTENCE_BOUNDARY_RE
Terminators == {".", "!", "?", "ELLIPSIS"}

\* ------------------------------------------------------------------------
\* Sequence helpers
\* ------------------------------------------------------------------------
MinOf(S) == CHOOSE x \in S : \A y \in S : x <= y

MaxOf(S) == CHOOSE x \in S : \A y \in S : x >= y

\* s[a..b] as Python's slice s[a-1:b]: empty when the range is empty
Slice(s, a, b) == IF a > b THEN <<>> ELSE SubSeq(s, a, b)

\* concatenation of the pieces ps[lo..hi]
RECURSIVE ConcatRange(_, _, _)
ConcatRange(ps, lo, hi) ==
  IF lo > hi THEN <<>>
  ELSE IF lo = hi THEN ps[lo]
  ELSE LET mid == (lo + hi) \div 2
       IN ConcatRange(ps, lo, mid) \o ConcatRange(ps, mid + 1, hi)

Flatten(ps) == ConcatRange(ps, 1, Len(ps))

\* first index >= j whose character is not whitespace (Len(s)+1 when none)
RECURSIVE SkipWs(_, _)
SkipWs(s, j) ==
  IF j <= Len(s) /\ s[j] \in Whitespace THEN SkipWs(s, j + 1) ELSE j

\* last index <= j whose character is not whitespace (0 when none)
RECURSIVE SkipWsBack(_, _)
SkipWsBack(s, j) ==
  IF j >= 1 /\ s[j] \in Whitespace THEN SkipWsBack(s, j - 1) ELSE j

\* first index >= j whose character is not a digit
RECURSIVE SkipDigits(_, _)
SkipDigits(s, j) ==
  IF j <= Len(s) /\ s[j] \in Digit THEN SkipDigits(s, j + 1) ELSE j

\* str.strip()
Strip(s) ==
  LET keep == {i \in 1..Len(s) : s[i] \notin Whitespace}
  IN IF keep = {} THEN <<>> ELSE SubSeq(s, MinOf(keep), MaxOf(keep))

\* ------------------------------------------------------------------------
\* SENTENCE_BOUNDARY_RE
\* ------------------------------------------------------------------------
\* (?<!\b\p{L}{1,3}) fails at i: 1 to 3 letters end at i-1 and start at a
\* word boundary
ShortWordBefore(s, i) ==
  \E k \in 1..3 :
    /\ i - k >= 1
    /\ \A j \in (i - k)..(i - 1) : s[j] \in Letter
    /\ (i - k = 1 \/ s[i - k - 1] \notin WordChar)

\* (?<!\p{Ll}\.\p{Ll}) fails at i
DotBetweenLower(s, i) ==
  /\ i >= 4
  /\ s[i - 3] \in Ll
  /\ s[i - 2] = "."
  /\ s[i - 1] \in Ll

\* (?=\s+\p{Lu}|\s*$) after the character at i
BoundaryLookahead(s, i) ==
  LET j == SkipWs(s, i + 1)
  IN \/ j > Len(s)
     \/ (j > i + 1 /\ s[j] \in Lu)

\* the expression matches with its group 1 at index i
SENTENCE_BOUNDARY_RE(s, i) ==
  /\ s[i] \in Terminators
  /\ ~ShortWordBefore(s, i)
  /\ ~DotBetweenLower(s, i)
  /\ BoundaryLookahead(s, i)

\* mutant: the search returns the latest match
BoundarySearch_Last(s) ==
  LET m == {i \in 1..Len(s) : s[i] \in Terminators /\ SENTENCE_BOUNDARY_RE(s, i)}
  IN IF m = {} THEN 0 ELSE MaxOf(m)

\* SENTENCE_BOUNDARY_RE.search(s): index of the earliest match, 0 for None
BoundarySearch(s) ==
  LET cand == {i \in 1..Len(s) : s[i] \in Terminators}
      m == {i \in cand : SENTENCE_BOUNDARY_RE(s, i)}
  IN IF m = {} THEN 0 ELSE MinOf(m)

\* ------------------------------------------------------------------------
\* post_clean_sentence: one definition per substitution, in source order
\* ------------------------------------------------------------------------
\* index of the ")" that closes (.*?) opened at o, 0 when the lazy group
\* cannot reach one ("." does not match a newline)
ParenClose(s, o) ==
  LET closes == {c \in (o + 1)..Len(s) : s[c] = ")"}
  IN IF closes = {} THEN 0
     ELSE LET c == MinOf(closes)
          IN IF \E j \in (o + 1)..(c - 1) : s[j] = "\n" THEN 0 ELSE c

\* re.sub(r"\s*\((.*?)\)", r", \1, ", sentence)
RECURSIVE RewriteParens(_)
RewriteParens(s) ==
  LET opens == {o \in 1..Len(s) : s[o] = "(" /\ ParenClose(s, o) # 0}
  IN IF opens = {} THEN s
     ELSE LET o == MinOf(opens)
              c == ParenClose(s, o)
              st == SkipWsBack(s, o - 1) + 1
          IN Slice(s, 1, st - 1) \o <<",", " ">> \o Slice(s, o + 1, c - 1)
               \o <<",", " ">> \o RewriteParens(Slice(s, c + 1, Len(s)))

\* LIST_ITEM_RE = ^\s*(?:(\d+)\.|([*-]))\s*(.*) tried at line start p:
\* the index after the marker, 0 when it does not match there
LIST_ITEM_RE(s, p) ==
  LET a == SkipWs(s, p)
  IN IF a > Len(s) THEN 0
     ELSE IF s[a] \in Digit
       THEN LET d == SkipDigits(s, a)
            IN IF d <= Len(s) /\ s[d] = "." THEN d + 1 ELSE 0
     ELSE IF s[a] \in {"*", "-"} THEN a + 1
     ELSE 0

\* list_replacer over the match that starts at line start p
list_replacer(s, p) ==
  LET a == SkipWs(s, p)
      after == LIST_ITEM_RE(s, p)
      b == SkipWs(s, after)
      nl == {e \in b..Len(s) : s[e] = "\n"}
      e == IF nl = {} THEN Len(s) + 1 ELSE MinOf(nl)
      text == Slice(s, b, e - 1)
      num == IF s[a] \in Digit THEN Slice(s, a, after - 2) ELSE <<>>
  IN [stop |-> e,
      out |-> IF num # <<>> THEN num \o <<",", " ">> \o text ELSE text]

\* LIST_ITEM_RE.sub(list_replacer, sentence), scanning from index from
RECURSIVE RewriteListItems(_, _)
RewriteListItems(s, from) ==
  LET starts == {p \in from..Len(s) :
                   /\ (p = 1 \/ s[p - 1] = "\n")
                   /\ LIST_ITEM_RE(s, p) # 0}
  IN IF starts = {} THEN Slice(s, from, Len(s))
     ELSE LET p == MinOf(starts)
              r == list_replacer(s, p)
          IN Slice(s, from, p - 1) \o r.out \o RewriteListItems(s, r.stop)

\* sentence.replace('\n', ' ').replace(';', '.')
ReplaceNewlineSemicolon(s) ==
  [i \in 1..Len(s) |->
     IF s[i] = "\n" THEN " " ELSE IF s[i] = ";" THEN "." ELSE s[i]]

\* \b([\p{IsCyrillic}]{1,3})\.\s+(?=\p{Lu}) matches with its period at i
CyrAbbrevDot(s, i) ==
  /\ s[i] = "."
  /\ \E k \in 1..3 :
       /\ i - k >= 1
       /\ \A j \in (i - k)..(i - 1) : s[j] \in Cyrillic
       /\ (i - k = 1 \/ s[i - k - 1] \notin WordChar)
  /\ i + 1 <= Len(s)
  /\ s[i + 1] \in Whitespace
  /\ LET j == SkipWs(s, i + 1) IN j <= Len(s) /\ s[j] \in Lu

\* re.sub(r"\b([\p{IsCyrillic}]{1,3})\.\s+(?=\p{Lu})", r"\1, ", sentence)
SoftenAbbreviations(s) ==
  IF \A i \in 1..Len(s) : ~CyrAbbrevDot(s, i) THEN s
  ELSE Flatten([i \in 1..Len(s) |->
         IF CyrAbbrevDot(s, i) THEN <<",", " ">>
         ELSE IF /\ s[i] \in Whitespace
                 /\ LET b == SkipWsBack(s, i) IN b >= 1 /\ CyrAbbrevDot(s, b)
           THEN <<>>
         ELSE <<s[i]>>])

\* re.sub(r"^[.,\s]+", "", sentence)
StripLeadingPunct(s) ==
  LET keep == {i \in 1..Len(s) : s[i] \notin ({".", ","} \cup Whitespace)}
  IN IF keep = {} THEN <<>> ELSE SubSeq(s, MinOf(keep), Len(s))

IsDecoration(c) == c \in {"*", "LAQUO", "RAQUO", "\""}

NotDecoration(c) == ~IsDecoration(c)

\* re.sub(r"[\*<<>>\"]", "", sentence)
StripDecorations(s) == SelectSeq(s, NotDecoration)

\* re.sub(r"\s*EMDASH\s*", ", ", sentence)
RewriteDashes(s) ==
  IF \A i \in 1..Len(s) : s[i] # "EMDASH" THEN s
  ELSE Flatten([i \in 1..Len(s) |->
         IF s[i] = "EMDASH" THEN <<",", " ">>
         ELSE IF /\ s[i] \in Whitespace
                 /\ LET b == SkipWsBack(s, i)
                        n == SkipWs(s, i)
                    IN \/ (b >= 1 /\ s[b] = "EMDASH")
                       \/ (n <= Len(s) /\ s[n] = "EMDASH")
           THEN <<>>
         ELSE <<s[i]>>])

\* re.sub(r"\s+", " ", sentence)
CollapseWhitespace(s) ==
  Flatten([i \in 1..Len(s) |->
    IF s[i] \in Whitespace
      THEN IF i > 1 /\ s[i - 1] \in Whitespace THEN <<>> ELSE <<" ">>
    ELSE <<s[i]>>])

IsCommaOrPeriod(c) == c \in {",", "."}

\* the [,.] at i is one of two or more repetitions of ([,.]\s*)
InPunctRun(s, i) ==
  /\ IsCommaOrPeriod(s[i])
  /\ LET b == SkipWsBack(s, i - 1)
         n == SkipWs(s, i + 1)
     IN \/ (b >= 1 /\ IsCommaOrPeriod(s[b]))
        \/ (n <= Len(s) /\ IsCommaOrPeriod(s[n]))

\* the [,.] at i is the last repetition: group 1 of the match
LastOfPunctRun(s, i) ==
  /\ InPunctRun(s, i)
  /\ LET n == SkipWs(s, i + 1) IN ~(n <= Len(s) /\ IsCommaOrPeriod(s[n]))

\* re.sub(r"\s*([,.]\s*){2,}", r"\1 ", sentence)
CollapsePunctuation(s) ==
  IF \A i \in 1..Len(s) : ~InPunctRun(s, i) THEN s
  ELSE Flatten([i \in 1..Len(s) |->
         IF LastOfPunctRun(s, i)
           THEN <<s[i]>> \o Slice(s, i + 1, SkipWs(s, i + 1) - 1) \o <<" ">>
         ELSE IF InPunctRun(s, i) THEN <<>>
         ELSE IF /\ s[i] \in Whitespace
                 /\ LET b == SkipWsBack(s, i)
                        n == SkipWs(s, i)
                    IN \/ (b >= 1 /\ InPunctRun(s, b))
                       \/ (n <= Len(s) /\ InPunctRun(s, n))
           THEN <<>>
         ELSE <<s[i]>>])

post_clean_sentence(sentence) ==
  LET s1 == RewriteParens(sentence)
      s2 == RewriteListItems(s1, 1)
      s3 == ReplaceNewlineSemicolon(s2)
      s4 == SoftenAbbreviations(s3)
      s5 == StripLeadingPunct(s4)
      s6 == StripDecorations(s5)
      s7 == RewriteDashes(s6)
      s8 == CollapseWhitespace(s7)
  IN Strip(CollapsePunctuation(s8))

\* ------------------------------------------------------------------------
\* SentenceBoundaryDetector
\* ------------------------------------------------------------------------
\* The engine is a record: buffer and held_sentence are its fields; gen is
\* the position of the generator returned by add_chunk ("idle": no generator
\* is running, "loop": at the head of `while True`, "yield": suspended at
\* the yield of _maybe_yield); cut is the local sentence_end_pos / split_pos
\* of the suspended iteration and forced tells which branch computed it.
SentenceBoundaryDetector ==
  [buffer |-> <<>>, held_sentence |-> <<>>, gen |-> "idle", cut |-> 0,
   forced |-> FALSE]

\* _maybe_yield, the join of the cleaned text with the held text
\* mutant: the held text is joined as it is, a final period kept
JoinHeld_Plain(held, cleaned) ==
  IF held = <<>> THEN cleaned ELSE held \o <<" ">> \o cleaned

JoinHeld(held, cleaned) ==
  IF held = <<>> THEN cleaned
  ELSE LET joiner == IF held[Len(held)] = "."
                       THEN SubSeq(held, 1, Len(held) - 1) \o <<",">>
                       ELSE held
       IN joiner \o <<" ">> \o cleaned

\* mutant: the held text is never yielded
ReachedMergeLimit_Never(held) == FALSE

\* mutant: the threshold test dropped, any held text is yielded
ReachedMergeLimit_Always(held) == Len(held) > 0

\* _maybe_yield: len(self.held_sentence) >= MERGE_BUFFER_LIMIT
ReachedMergeLimit(held) == Len(held) >= MERGE_BUFFER_LIMIT

\* self.buffer.rfind(' ', 0, HARD_LIMIT), as Python's 0-based index or -1
RFindSpace(buf) ==
  LET lim == IF Len(buf) < HARD_LIMIT THEN Len(buf) ELSE HARD_LIMIT
      sp == {k \in 1..lim : buf[k] = " "}
  IN IF sp = {} THEN -1 ELSE MaxOf(sp) - 1

\* mutant: a forced cut is always made at index HARD_LIMIT
ForcedSplitPos_Limit(buf) == HARD_LIMIT

\* add_chunk: the split position of a forced cut
ForcedSplitPos(buf) ==
  IF RFindSpace(buf) = -1 THEN HARD_LIMIT ELSE RFindSpace(buf)

\* add_chunk: the decimal guard on the match whose group 1 is at index m
DecimalGuard(buf, m) ==
  /\ buf[m] = "."
  /\ m = Len(buf)
  /\ m - 1 > 0
  /\ buf[m - 1] \in Digit

\* mutant: the character after the cut is dropped with the fragment
DropPrefix_Skip(buf, pos) == Slice(buf, pos + 2, Len(buf))

\* self.buffer = self.buffer[pos:]
DropPrefix(buf, pos) == Slice(buf, pos + 1, Len(buf))

\* add_chunk: the branch one pass of the `while True` body takes when the
\* search returned m: a natural cut, a forced cut, the decimal guard's
\* break ("guard") or the break that waits for more data ("wait")
IterationKind(buf, m) ==
  IF m = 0
    THEN IF Len(buf) > HARD_LIMIT THEN "forced" ELSE "wait"
  ELSE IF DecimalGuard(buf, m) THEN "guard"
  ELSE "natural"

\* add_chunk: split_pos of a forced cut, sentence_end_pos of a natural one
CutPos(buf, m) == IF m = 0 THEN ForcedSplitPos(buf) ELSE m

\* _maybe_yield once the held text has been joined: yield (the generator
\* suspends before the buffer is cut) or keep holding (the pass completes)
YieldOrHold(e, kind, pos, held) ==
  IF ReachedMergeLimit(held)
    THEN [kind |-> kind, unit |-> <<held>>, pos |-> pos,
          e |-> [e EXCEPT !.held_sentence = held, !.gen = "yield",
                          !.cut = pos, !.forced = (kind = "forced")]]
  ELSE [kind |-> kind, unit |-> <<>>, pos |-> pos,
        e |-> [e EXCEPT !.held_sentence = held, !.gen = "loop",
                        !.buffer = DropPrefix(e.buffer, pos)]]

\* _maybe_yield on the fragment whose cleaned text is cleaned
maybe_yield(e, kind, pos, cleaned) ==
  IF cleaned = <<>>
    THEN [kind |-> kind, unit |-> <<>>, pos |-> pos,
          e |-> [e EXCEPT !.gen = "loop",
                          !.buffer = DropPrefix(e.buffer, pos)]]
  ELSE YieldOrHold(e, kind, pos, JoinHeld(e.held_sentence, cleaned))

\* the body of the loop for a search result m and the branch kind
LoopBody(e, kind, pos) ==
  IF kind \in {"wait", "guard"}
    THEN [kind |-> kind, unit |-> <<>>, pos |-> 0,
          e |-> [e EXCEPT !.gen = "idle"]]
  ELSE maybe_yield(e, kind, pos, post_clean_sentence(Slice(e.buffer, 1, pos)))

LoopAfterSearch(e, m) ==
  LoopBody(e, IterationKind(e.buffer, m), CutPos(e.buffer, m))

\* add_chunk, one pass of the `while True` body from its head up to the
\* next yield, break or loop back. The result names the branch taken
\* (kind), the engine after it and the unit handed to the consumer.
LoopIteration(e) == LoopAfterSearch(e, BoundarySearch(e.buffer))

\* the generator resumed after its yield: _maybe_yield clears the held text
\* and add_chunk drops the fragment from the buffer, back to the loop head
ResumeAfterYield(e) ==
  [e EXCEPT !.held_sentence = <<>>, !.gen = "loop", !.cut = 0,
            !.forced = FALSE, !.buffer = DropPrefix(e.buffer, e.cut)]

\* mutant: the chunk replaces the pending buffer instead of extending it
add_chunk_Replace(e, chunk) == [e EXCEPT !.buffer = chunk, !.gen = "loop"]

\* add_chunk up to the head of the loop: self.buffer += chunk
add_chunk(e, chunk) == [e EXCEPT !.buffer = e.buffer \o chunk, !.gen = "loop"]

\* finish: the held text once the rest of the buffer has been drained
FinishHeld(e, cleaned) ==
  IF cleaned = <<>> THEN e.held_sentence
  ELSE JoinHeld(e.held_sentence, cleaned)

\* mutant: finish() returns the held text without clearing it
finish_KeepHeld(e) ==
  [final_text |-> FinishHeld(e, IF e.buffer # <<>>
                                  THEN post_clean_sentence(e.buffer)
                                  ELSE <<>>),
   e |-> [e EXCEPT !.buffer = <<>>]]

\* finish: the engine after the call and the text returned
finish(e) ==
  [final_text |-> FinishHeld(e, IF e.buffer # <<>>
                                  THEN post_clean_sentence(e.buffer)
                                  ELSE <<>>),
   e |-> [e EXCEPT !.buffer = <<>>, !.held_sentence = <<>>]]

\* ------------------------------------------------------------------------
\* Input texts
\* ------------------------------------------------------------------------
\* n copies of the character c
Rep(c, n) == [i \in 1..n |-> c]

\* "Hello."
Hello ==
  <<"H","e","l","l","o",".">>

\* " World is great."
World ==
  <<" ","W","o","r","l","d"," ","i","s"," ","g","r","e","a","t",".">>

\* "Hello. World is great."
HelloWorld ==
  <<"H","e","l","l","o","."," ","W","o","r","l","d"," ","i","s"," ","g",
    "r","e","a","t",".">>

\* "It works. Next"
ItWorks ==
  <<"I","t"," ","w","o","r","k","s","."," ","N","e","x","t">>

\* "Pi is 3."
PiIs ==
  <<"P","i"," ","i","s"," ","3",".">>

\* "14 meters"
Meters ==
  <<"1","4"," ","m","e","t","e","r","s">>

\* " and so on"
AndSoOn ==
  <<" ","a","n","d"," ","s","o"," ","o","n">>

\* "See St. Paul (the old one). "
StPaul ==
  <<"S","e","e"," ","S","t","."," ","P","a","u","l"," ","(","t","h","e",
    " ","o","l","d"," ","o","n","e",")","."," ">>

\* "«г. М» — ok; file.py *is* here!"
Quoted ==
  <<"LAQUO","cyr_g","."," ","cyr_M","RAQUO"," ","EMDASH"," ","o","k",";",
    " ","f","i","l","e",".","p","y"," ","*","i","s","*"," ","h","e","r",
    "e","!">>

\* "1. First\n- second.."
ListItem ==
  <<"1","."," ","F","i","r","s","t","\n","-"," ","s","e","c","o","n","d",
    ".",".">>

\* a word of HARD_LIMIT + 1 letters
LongWord == Rep("a", HARD_LIMIT + 1)

\* a space, then a word of HARD_LIMIT + 1 letters
SpaceLongWord == <<" ">> \o Rep("a", HARD_LIMIT + 1)

\* HARD_LIMIT characters without a space, the last two being "3."
LongDecimal == Rep("a", HARD_LIMIT - 2) \o <<"3", ".">>

\* two words of 200 letters with one space between them
TwoLongWords == Rep("a", 200) \o <<" ">> \o Rep("b", 200)

\* the chunks a stream may carry
Chunks ==
  {Hello, World, HelloWorld, ItWorks, PiIs, Meters, AndSoOn, StPaul, Quoted,
   ListItem, LongWord, SpaceLongWord, LongDecimal, TwoLongWords}

\* ------------------------------------------------------------------------
\* Server configuration (__main__.py) and synthesizer (speech_tts.py)
\* ------------------------------------------------------------------------
DEFAULT_SAMPLE_WIDTH == 2

DEFAULT_CHANNELS == 1

DEFAULT_SPEAKER_NAME == "xenia"

SILERO_SPEAKERS == {"aidar", "baya", "kseniya", "xenia", "eugene"}

\* the keys of voice_map = {name: name for name in SILERO_SPEAKERS}
voice_map == SILERO_SPEAKERS

\* main: an unknown --default-speaker falls back to DEFAULT_SPEAKER_NAME
default_speaker(arg) ==
  IF arg \notin SILERO_SPEAKERS THEN DEFAULT_SPEAKER_NAME ELSE arg

\* the handler's default_speaker_name, --default-speaker left at its default
default_speaker_name == default_speaker(DEFAULT_SPEAKER_NAME)

\* synthesize.voice is None
NoVoice == "None"

\* the characters of the model's alphabet that leave something to speak
\* after the normalization passes of synthesize: letters (Cyrillic kept,
\* Latin transliterated), digits (spelled out), '%' (spelled out), ':'
\* (',' or kept before a digit), the ellipsis ('.'), the dashes ('-') and
\* the characters _FINAL_CLEANUP_PATTERN keeps. Every other character is
\* deleted by the translation table or blanked by the final cleanup.
SpokenChars ==
  Letter \cup Digit \cup {"+", "?", "!", ".", ",", "-", "%", ":", "ELLIPSIS",
                          "EMDASH"}

\* synthesize: `not normalized_text` after the passes and the final strip
normalized_empty(text) == \A i \in 1..Len(text) : text[i] \notin SpokenChars

\* _handle_synthesize: " ".join(synthesize.text.strip().splitlines())
JoinLines(text) ==
  [i \in 1..Len(Strip(text)) |->
     IF Strip(text)[i] = "\n" THEN " " ELSE Strip(text)[i]]

\* mutant: the requested voice is used without looking it up
speaker_name_Requested(requested_voice_name) == requested_voice_name

\* _handle_synthesize: the speaker a request is synthesized with
speaker_name(requested_voice_name) ==
  IF requested_voice_name # NoVoice /\ requested_voice_name \in voice_map
    THEN requested_voice_name
    ELSE default_speaker_name

\* the synthesis gate, an asyncio.Lock: free, nobody waiting
Lock == [locked |-> FALSE, waiters |-> <<>>]

\* mutant: the gate is taken without looking at it
CanAcquire_Always(l) == TRUE

\* asyncio.Lock.acquire returns at once: not locked and nobody waiting
CanAcquire(l) == ~l.locked /\ l.waiters = <<>>

\* mutant: leaving `async with` keeps the gate
Release_Held(l) == l

\* synthesize, the end of `async with self._lock`, by return or exception
Release(l) == [l EXCEPT !.locked = FALSE]

\* ------------------------------------------------------------------------
\* Outbound notifications (handler.py)
\* ------------------------------------------------------------------------
\* a notification; lo..hi are the bytes of the payload an audio frame holds
Note(type, text, lo, hi) == [type |-> type, text |-> text, lo |-> lo, hi |-> hi]

InfoNote == Note("info", "", 0, 0)

AudioStartNote == Note("audio-start", "", 0, 0)

\* AudioChunk(audio=audio_bytes[lo:hi]), lo and hi as in a Python slice
AudioChunkNote(lo, hi) == Note("audio-chunk", "", lo, hi)

\* mutant: the block is closed by a frame without payload, not by AudioStop
AudioStopNote_Frame == Note("audio-chunk", "", 0, 0)

AudioStopNote == Note("audio-stop", "", 0, 0)

SynthesizeStoppedNote == Note("synthesize-stopped", "", 0, 0)

\* Error(text=str(e), code=e.__class__.__name__), the class name kept
ErrorNote(code) == Note("error", code, 0, 0)

\* Error(text="TTS synthesis failed")
SynthesisFailedNote == Note("error", "TTS synthesis failed", 0, 0)

\* bytes_per_chunk = width * channels * samples_per_chunk
bytes_per_chunk(spc) == DEFAULT_SAMPLE_WIDTH * DEFAULT_CHANNELS * spc

\* mutant: every frame runs to the end of the payload
FrameEnd_Whole(spc, n, i) == n

\* the end of the frame that starts at byte i of a payload of n bytes:
\* audio_bytes[i : i + bytes_per_chunk], or the whole payload when the
\* frame size is not positive
FrameEnd(spc, n, i) ==
  IF bytes_per_chunk(spc) > 0
    THEN (IF i + bytes_per_chunk(spc) < n THEN i + bytes_per_chunk(spc) ELSE n)
    ELSE n

\* no frame is left to write: range(0, len, bytes_per_chunk) is exhausted,
\* or the single frame of the elif branch is written or not needed
FramesDone(n, i) == i >= n

\* ------------------------------------------------------------------------
\* Events a client sends (handler.py)
\* ------------------------------------------------------------------------
\* "="
Equals == <<"=">>

\* "The first sentence is long. The second sentence is longer. "
TwoSentences ==
  <<"T","h","e"," ","f","i","r","s","t"," ","s","e","n","t","e","n","c","e",
    " ","i","s"," ","l","o","n","g","."," ","T","h","e"," ","s","e","c","o",
    "n","d"," ","s","e","n","t","e","n","c","e"," ","i","s"," ","l","o","n",
    "g","e","r","."," ">>

\* "Great! Next"
GreatNext ==
  <<"G","r","e","a","t","!"," ","N","e","x","t">>

\* an event: its type, its text, the voice it asks for, and whether its
\* data can be parsed by from_event
Event(type, text, voice, wellformed) ==
  [type |-> type, text |-> text, voice |-> voice, wellformed |-> wellformed]

\* the voices a client asks for: none, a known one, an unknown one
RequestedVoices == {NoVoice, "baya", "nobody"}

\* the texts of the chunks of a stream
StreamChunks == {Hello, HelloWorld, TwoSentences, GreatNext, Equals}

NoEvent == Event("none", <<>>, NoVoice, TRUE)

DescribeEvents == {Event("describe", <<>>, NoVoice, TRUE)}

UnexpectedEvents == {Event("transcribe", <<>>, NoVoice, TRUE)}

SynthesizeEvents ==
  {Event("synthesize", Hello, v, TRUE) : v \in RequestedVoices}
    \cup {Event("synthesize", t, NoVoice, TRUE) : t \in {<<>>, Equals}}
    \cup {Event("synthesize", <<>>, NoVoice, FALSE)}

SynthesizeStartEvents ==
  {Event("synthesize-start", <<>>, v, TRUE) : v \in RequestedVoices}

SynthesizeChunkEvents ==
  {Event("synthesize-chunk", t, NoVoice, TRUE) : t \in StreamChunks}
    \cup {Event("synthesize-chunk", <<>>, NoVoice, FALSE)}

SynthesizeStopEvents == {Event("synthesize-stop", <<>>, NoVoice, TRUE)}

\* the lengths in bytes of the payloads the engine returns
AudioLengths == {0, 2048, 3000}

\* the values of --samples-per-chunk, any int
SamplesPerChunk == {-1, 0, 1024}

\* the connections, one handler each, sharing one SpeechTTS
Conns == {1, 2}

\* the events a connection may send: the first client sends any event, the
\* second one only the one-shot request for "Hello." in the default voice
Sends(c, evs) ==
  IF c = 1 THEN evs ELSE evs \cap {Event("synthesize", Hello, NoVoice, TRUE)}

\* ------------------------------------------------------------------------
\* Bounds
\* ------------------------------------------------------------------------
\* add_chunk calls made on one engine
MaxChunks == 3

\* finish calls made on one engine
MaxFinish == 2

\* events handled, all connections together
MaxEvents == 3

\* ------------------------------------------------------------------------
\* State
\* ------------------------------------------------------------------------
VARIABLES
  engine,       \* the engine under test (a SentenceBoundaryDetector)
  fed,          \* the chunks appended since construction or the last finish
  cutText,      \* the raw fragments cut in that period, concatenated
  cutEnds,      \* the lengths cutText has had right after a cut
  decimalDots,  \* indices in fed of a period that ends a chunk after a
                \* digit, the next chunk beginning with a digit
  chunkEnds,    \* the lengths fed has had after each chunk but the last
  units,        \* the units yielded by add_chunk in that period
  forcedCuts,   \* whether a forced cut was applied in that period
  last,         \* the last completed pass of the loop of add_chunk
  fin,          \* finish: the number of calls and the last text returned
  nchunks       \* the number of add_chunk calls

engineVars ==
  <<engine, fed, cutText, cutEnds, decimalDots, chunkEnds, units, forcedCuts,
    last, fin, nchunks>>

VARIABLES
  self,              \* per connection, the handler's fields is_streaming,
                     \* sbd and _synthesize (<<>> stands for None)
  pc,                \* per connection, where its handler is
  event,             \* per connection, the event handled now or last
  arrival,           \* per connection, the fields when that event arrived
  audio_bytes,       \* per connection, the length of the payload returned
  sent,              \* per connection, the loop index of the frame loop
  out,               \* per connection, the notifications written for event
  handled,           \* per connection, the _handle_synthesize calls made
                     \* for event
  raised,            \* per connection, where the exceptions raised for
                     \* event were caught
  returned,          \* per connection, the last result of handle_event
  lock,              \* SpeechTTS._lock
  nevents,           \* the number of events handled
  samples_per_chunk  \* cli_args.samples_per_chunk

handlerVars ==
  <<self, pc, event, arrival, audio_bytes, sent, out, handled, raised,
    returned, lock, nevents, samples_per_chunk>>

vars == <<engineVars, handlerVars>>

NoPass == [kind |-> "none", before |-> <<>>, pos |-> 0]

EngineInit ==
  /\ engine = SentenceBoundaryDetector
  /\ fed = <<>>
  /\ cutText = <<>>
  /\ cutEnds = {}
  /\ decimalDots = {}
  /\ chunkEnds = {}
  /\ units = <<>>
  /\ forcedCuts = FALSE
  /\ last = NoPass
  /\ fin = [calls |-> 0, text |-> <<>>]
  /\ nchunks = 0

\* a chunk ends with a digit and a period and the next begins with a digit
SplitsDecimal(text, chunk) ==
  /\ Len(text) >= 2
  /\ text[Len(text)] = "."
  /\ text[Len(text) - 1] \in Digit
  /\ chunk[1] \in Digit

\* add_chunk(chunk) is called and its generator started
AddChunk(chunk) ==
  /\ engine.gen = "idle"
  /\ nchunks < MaxChunks
  /\ nchunks' = nchunks + 1
  /\ engine' = add_chunk(engine, chunk)
  /\ last' = NoPass
  /\ IF fin.calls > 0
       THEN /\ fed' = chunk
            /\ cutText' = <<>>
            /\ cutEnds' = {}
            /\ decimalDots' = {}
            /\ chunkEnds' = {}
            /\ units' = <<>>
            /\ forcedCuts' = FALSE
       ELSE /\ fed' = fed \o chunk
            /\ decimalDots' = IF SplitsDecimal(fed, chunk)
                                THEN decimalDots \cup {Len(fed)}
                                ELSE decimalDots
            /\ chunkEnds' = IF fed = <<>> THEN chunkEnds
                            ELSE chunkEnds \cup {Len(fed)}
            /\ UNCHANGED <<cutText, cutEnds, units, forcedCuts>>
  /\ fin' = [calls |-> 0, text |-> <<>>]
  /\ UNCHANGED handlerVars

\* the buffer loses its first pos characters: the fragment is recorded
RecordCut(kind, before, pos) ==
  /\ cutText' = cutText \o Slice(before, 1, pos)
  /\ cutEnds' = cutEnds \cup {Len(cutText) + pos}
  /\ forcedCuts' = (forcedCuts \/ kind = "forced")
  /\ last' = [kind |-> kind, before |-> before, pos |-> pos]

\* the effect of the pass r on the engine under test
TakePass(r) ==
  /\ engine' = r.e
  /\ units' = units \o r.unit
  /\ IF r.e.gen = "loop"
       THEN RecordCut(r.kind, engine.buffer, r.pos)
     ELSE IF r.e.gen = "idle"
       THEN /\ last' = [kind |-> r.kind, before |-> engine.buffer, pos |-> 0]
            /\ UNCHANGED <<cutText, cutEnds, forcedCuts>>
     ELSE UNCHANGED <<cutText, cutEnds, forcedCuts, last>>

\* the consumer asks the generator for its next unit: one pass of the loop
Iterate ==
  /\ engine.gen = "loop"
  /\ TakePass(LoopIteration(engine))
  /\ UNCHANGED <<fed, decimalDots, chunkEnds, fin, nchunks, handlerVars>>

\* the consumer asks again after a unit: the suspended pass completes
Resume ==
  /\ engine.gen = "yield"
  /\ engine' = ResumeAfterYield(engine)
  /\ RecordCut(IF engine.forced THEN "forced" ELSE "natural", engine.buffer,
               engine.cut)
  /\ UNCHANGED <<fed, decimalDots, chunkEnds, units, fin, nchunks,
                 handlerVars>>

\* the effect of a finish() call with result r
TakeFinish(r) ==
  /\ engine' = r.e
  /\ fin' = [calls |-> fin.calls + 1, text |-> r.final_text]

\* finish() is called
Finish ==
  /\ engine.gen = "idle"
  /\ fin.calls < MaxFinish
  /\ TakeFinish(finish(engine))
  /\ UNCHANGED <<fed, cutText, cutEnds, decimalDots, chunkEnds, units,
                 forcedCuts, last, nchunks, handlerVars>>

EngineNext ==
  \/ \E chunk \in Chunks : AddChunk(chunk)
  \/ Iterate
  \/ Resume
  \/ Finish

\* ------------------------------------------------------------------------
\* The whole text as one chunk, for comparison
\* ------------------------------------------------------------------------
\* the units yielded so far, then the text finish() returned if not empty
WithFinal(us, text) == IF text = <<>> THEN us ELSE Append(us, text)

\* what a consumer gets by draining the generator of e: the units, the
\* engine left behind, and whether a forced cut came up (the drain stops
\* there)
RECURSIVE DrainGenerator(_, _)
RECURSIVE DrainPass(_, _)
DrainGenerator(e, us) ==
  IF e.gen = "idle" THEN [e |-> e, units |-> us, forced |-> FALSE]
  ELSE IF e.gen = "yield" THEN DrainGenerator(ResumeAfterYield(e), us)
  ELSE DrainPass(LoopIteration(e), us)

DrainPass(r, us) ==
  IF r.kind = "forced" THEN [e |-> r.e, units |-> us, forced |-> TRUE]
  ELSE DrainGenerator(r.e, us \o r.unit)

DrainThenFinish(d) ==
  [forced |-> d.forced, units |-> WithFinal(d.units, finish(d.e).final_text)]

\* a new engine, add_chunk(text) drained, then finish()
WholeTextRun(text) ==
  DrainThenFinish(DrainGenerator(add_chunk(SentenceBoundaryDetector, text),
                                 <<>>))

\* ------------------------------------------------------------------------
\* The event handler (handler.py) and the synthesis gate (speech_tts.py)
\* ------------------------------------------------------------------------
\* __init__: is_streaming, sbd, _synthesize
Idle == [is_streaming |-> FALSE, sbd |-> <<>>, _synthesize |-> <<>>]

\* mutant: the fields are left as they are
Reset_Keep(s) == s

\* is_streaming = False; sbd = None; _synthesize = None
Reset(s) == Idle

\* the state of every handler after construction, nothing received yet
HandlerStart ==
  /\ self = [c \in Conns |-> Idle]
  /\ pc = [c \in Conns |-> "idle"]
  /\ event = [c \in Conns |-> NoEvent]
  /\ arrival = [c \in Conns |-> Idle]
  /\ audio_bytes = [c \in Conns |-> 0]
  /\ sent = [c \in Conns |-> 0]
  /\ out = [c \in Conns |-> <<>>]
  /\ handled = [c \in Conns |-> <<>>]
  /\ raised = [c \in Conns |-> {}]
  /\ returned = [c \in Conns |-> TRUE]
  /\ lock = Lock
  /\ nevents = 0

HandlerInit == HandlerStart /\ samples_per_chunk \in SamplesPerChunk

\* f with its value for connection c replaced
Upd(f, c, v) == [f EXCEPT ![c] = v]

\* a _handle_synthesize call in progress: its text, the speaker resolved,
\* and the index in out of the first notification it may write
Call(text, speaker, first) ==
  [text |-> text, speaker |-> speaker, result |-> "pending", first |-> first,
   last |-> first - 1, audio |-> 0]

\* the last call of the log h has ended with result, having written the
\* notifications up to index upto
Close(h, result, upto, n) ==
  [h EXCEPT ![Len(h)] = [@ EXCEPT !.result = result, !.last = upto,
                                  !.audio = n]]

\* the generator of add_chunk run up to its next yield or its end; a
\* forced cut at index 0 leaves every pass with the same buffer, and the
\* result is then the pass itself (gen = "loop")
RECURSIVE NextUnit(_)
RECURSIVE NextUnitAfter(_)
NextUnit(e) ==
  IF e.gen = "idle" THEN [kind |-> "end", unit |-> <<>>, pos |-> 0, e |-> e]
  ELSE IF e.gen = "yield" THEN NextUnit(ResumeAfterYield(e))
  ELSE NextUnitAfter(LoopIteration(e))

NextUnitAfter(r) ==
  IF r.e.gen = "loop" /\ ~(r.kind = "forced" /\ r.pos = 0)
    THEN NextUnit(r.e)
    ELSE r

\* every unit the generator of e yields, e not looping forever
RECURSIVE Sentences(_)
RECURSIVE SentencesAfter(_)
Sentences(e) == SentencesAfter(NextUnit(e))

SentencesAfter(r) ==
  IF r.e.gen = "yield" THEN r.unit \o Sentences(r.e) ELSE <<>>

\* AsyncEventHandler.run hands the next event of connection c to
\* handle_event once the previous call has returned True
StartEvent(c, ev) ==
  /\ pc[c] = "idle"
  /\ returned[c]
  /\ nevents < MaxEvents
  /\ nevents' = nevents + 1
  /\ event' = Upd(event, c, ev)
  /\ arrival' = Upd(arrival, c, self[c])
  /\ UNCHANGED <<audio_bytes, sent, lock, samples_per_chunk, engineVars>>

\* handle_event up to its return or its first call of _handle_synthesize:
\* the fields s, the position p, the notifications written, the catch site
\* of the exception raised and the result
Leave(c, s, p, notes, exc, ret) ==
  /\ self' = Upd(self, c, s)
  /\ pc' = Upd(pc, c, p)
  /\ out' = Upd(out, c, notes)
  /\ handled' = Upd(handled, c, <<>>)
  /\ raised' = Upd(raised, c, exc)
  /\ returned' = Upd(returned, c, ret)

\* handle_event, `except Exception`: error notification, reset, False
Raise(c, code) ==
  Leave(c, Reset(self[c]), "idle", <<ErrorNote(code)>>, {"handle_event"},
        FALSE)

\* handle_event, Describe
HandleDescribe(c, ev) ==
  /\ StartEvent(c, ev)
  /\ Leave(c, self[c], "idle", <<InfoNote>>, {}, TRUE)

\* mutant: a one-shot request is served whatever the session state
IgnoresSynthesize_Never(s) == FALSE

\* handle_event, Synthesize: `if self.is_streaming: return True`
IgnoresSynthesize(s) == s.is_streaming

\* handle_event, Synthesize
HandleSynthesize(c, ev) ==
  /\ StartEvent(c, ev)
  /\ IF IgnoresSynthesize(self[c])
       THEN Leave(c, self[c], "idle", <<>>, {}, TRUE)
     ELSE IF ~ev.wellformed
       THEN Raise(c, "KeyError")
     ELSE Leave(c, self[c], "call", <<>>, {}, TRUE)

\* mutant: stream start sets the flag only
Streaming_FlagOnly(voice) ==
  [is_streaming |-> TRUE, sbd |-> <<>>, _synthesize |-> <<>>]

\* handle_event, SynthesizeStart: the fields of a stream that asks for voice
Streaming(voice) ==
  [is_streaming |-> TRUE, sbd |-> <<SentenceBoundaryDetector>>,
   _synthesize |-> <<[text |-> <<>>, voice |-> voice]>>]

\* mutant: a stream start keeps the engine of a stream already open
StartStream_KeepEngine(s, voice) ==
  IF s.is_streaming
    THEN [s EXCEPT !._synthesize = <<[text |-> <<>>, voice |-> voice]>>]
    ELSE Streaming(voice)

\* handle_event, SynthesizeStart: the fields after the branch, whatever
\* the fields s before it
StartStream(s, voice) == Streaming(voice)

\* handle_event, SynthesizeStart
HandleSynthesizeStart(c, ev) ==
  /\ StartEvent(c, ev)
  /\ Leave(c, StartStream(self[c], ev.voice), "idle", <<>>, {}, TRUE)

\* the two assertions of the SynthesizeChunk and SynthesizeStop branches
AssertStream(s) == s._synthesize # <<>> /\ s.sbd # <<>>

\* handle_event, SynthesizeChunk, up to the head of the for loop
HandleSynthesizeChunk(c, ev) ==
  /\ StartEvent(c, ev)
  /\ IF ~AssertStream(self[c])
       THEN Raise(c, "AssertionError")
     ELSE IF ~ev.wellformed
       THEN Raise(c, "KeyError")
     ELSE Leave(c, [self[c] EXCEPT !.sbd = <<add_chunk(@[1], ev.text)>>],
                "loop", <<>>, {}, TRUE)

\* the for loop of the SynthesizeChunk branch asks for the next sentence:
\* r is what the generator answers
TakeSentence(c, r) ==
  /\ self' = Upd(self, c,
                 [self[c] EXCEPT
                    !.sbd = <<r.e>>,
                    !._synthesize =
                      IF r.e.gen = "yield"
                        THEN <<[@[1] EXCEPT !.text = r.unit[1]]>>
                        ELSE @])
  /\ pc' = Upd(pc, c, IF r.e.gen = "yield" THEN "call"
                      ELSE IF r.e.gen = "idle" THEN "idle"
                      ELSE "spin")

NextSentence(c) ==
  /\ pc[c] = "loop"
  /\ TakeSentence(c, NextUnit(self[c].sbd[1]))
  /\ UNCHANGED <<event, arrival, audio_bytes, sent, out, handled, raised,
                 returned, lock, nevents, samples_per_chunk, engineVars>>

\* handle_event, SynthesizeStop, after finish() has answered r
AfterFinish(c, r) ==
  IF r.final_text # <<>>
    THEN Leave(c, [self[c] EXCEPT
                     !.sbd = <<r.e>>,
                     !._synthesize = <<[@[1] EXCEPT !.text = r.final_text]>>],
               "call", <<>>, {}, TRUE)
    ELSE Leave(c, [self[c] EXCEPT !.sbd = <<r.e>>], "stopped", <<>>, {},
               TRUE)

\* handle_event, SynthesizeStop, up to the call of _handle_synthesize or
\* the write of SynthesizeStopped
HandleSynthesizeStop(c, ev) ==
  /\ StartEvent(c, ev)
  /\ IF ~AssertStream(self[c])
       THEN Raise(c, "AssertionError")
       ELSE AfterFinish(c, finish(self[c].sbd[1]))

\* handle_event, SynthesizeStop: SynthesizeStopped is written, the fields
\* are reset, True is returned
WriteSynthesizeStopped(c) ==
  /\ pc[c] = "stopped"
  /\ out' = Upd(out, c, Append(out[c], SynthesizeStoppedNote))
  /\ self' = Upd(self, c, Reset(self[c]))
  /\ pc' = Upd(pc, c, "idle")
  /\ UNCHANGED <<event, arrival, audio_bytes, sent, handled, raised, returned,
                 lock, nevents, samples_per_chunk, engineVars>>

\* handle_event, any other event type
HandleUnexpected(c, ev) ==
  /\ StartEvent(c, ev)
  /\ Leave(c, self[c], "idle", <<>>, {}, TRUE)

\* the Synthesize object _handle_synthesize is called with: the one of
\* the event, or self._synthesize with the text of the unit
Request(c) ==
  IF event[c].type = "synthesize"
    THEN [text |-> event[c].text, voice |-> event[c].voice]
    ELSE self[c]._synthesize[1]

\* mutant: handle_event returns once _handle_synthesize has returned
NextPc_Return(type) == "idle"

\* where handle_event goes on once _handle_synthesize has returned: the
\* next sentence of the chunk, the SynthesizeStopped of the stop, or the
\* return of the one-shot request
NextPc(type) ==
  IF type = "synthesize-chunk" THEN "loop"
  ELSE IF type = "synthesize-stop" THEN "stopped"
  ELSE "idle"

\* _handle_synthesize returns True to handle_event
Continue(c) == pc' = Upd(pc, c, NextPc(event[c].type))

\* mutant: no text counts as empty
NoText_Never(text) == FALSE

\* _handle_synthesize, `if not synthesize.text`
NoText(text) == text = <<>>

\* _handle_synthesize called with req, up to its return or the gate of
\* synthesize: nothing for an empty text, an error notification when
\* synthesize returns None for a text that normalizes to nothing
HandleRequest(c, req) ==
  IF NoText(req.text)
    THEN /\ handled' =
              Upd(handled, c,
                  Close(Append(handled[c],
                               Call(req.text, default_speaker_name,
                                    Len(out[c]) + 1)),
                        "skipped", Len(out[c]), 0))
         /\ Continue(c)
         /\ UNCHANGED <<out, lock>>
  ELSE IF normalized_empty(JoinLines(req.text))
    THEN /\ handled' =
              Upd(handled, c,
                  Close(Append(handled[c],
                               Call(req.text, speaker_name(req.voice),
                                    Len(out[c]) + 1)),
                        "none", Len(out[c]) + 1, 0))
         /\ out' = Upd(out, c, Append(out[c], SynthesisFailedNote))
         /\ Continue(c)
         /\ UNCHANGED lock
  ELSE /\ handled' =
            Upd(handled, c,
                Append(handled[c],
                       Call(req.text, speaker_name(req.voice),
                            Len(out[c]) + 1)))
       /\ IF CanAcquire(lock)
            THEN /\ lock' = [lock EXCEPT !.locked = TRUE]
                 /\ pc' = Upd(pc, c, "engine")
            ELSE /\ lock' = [lock EXCEPT !.waiters = Append(@, c)]
                 /\ pc' = Upd(pc, c, "gate")
       /\ UNCHANGED out

_handle_synthesize(c) ==
  /\ pc[c] = "call"
  /\ HandleRequest(c, Request(c))
  /\ UNCHANGED <<self, event, arrival, audio_bytes, sent, raised, returned,
                 nevents, samples_per_chunk, engineVars>>

\* synthesize, `async with self._lock`: the first waiter gets the gate
\* once it is released
AcquireLock(c) ==
  /\ pc[c] = "gate"
  /\ ~lock.locked
  /\ lock.waiters # <<>>
  /\ Head(lock.waiters) = c
  /\ lock' = [locked |-> TRUE, waiters |-> Tail(lock.waiters)]
  /\ pc' = Upd(pc, c, "engine")
  /\ UNCHANGED <<self, event, arrival, audio_bytes, sent, out, handled,
                 raised, returned, nevents, samples_per_chunk, engineVars>>

\* _synthesize_thread returns n bytes: the gate is released, synthesize
\* returns them and _handle_synthesize writes AudioStart
SynthesizeReturns(c, n) ==
  /\ pc[c] = "engine"
  /\ lock' = Release(lock)
  /\ audio_bytes' = Upd(audio_bytes, c, n)
  /\ sent' = Upd(sent, c, 0)
  /\ out' = Upd(out, c, Append(out[c], AudioStartNote))
  /\ pc' = Upd(pc, c, "frames")
  /\ UNCHANGED <<self, event, arrival, handled, raised, returned, nevents,
                 samples_per_chunk, engineVars>>

\* _synthesize_thread raises: the gate is released, synthesize logs the
\* exception and returns None, _handle_synthesize writes an error
\* notification and returns True
SynthesizeRaises(c) ==
  /\ pc[c] = "engine"
  /\ lock' = Release(lock)
  /\ raised' = Upd(raised, c, raised[c] \cup {"synthesize"})
  /\ out' = Upd(out, c, Append(out[c], SynthesisFailedNote))
  /\ handled' = Upd(handled, c, Close(handled[c], "failed", Len(out[c]) + 1,
                                      0))
  /\ Continue(c)
  /\ UNCHANGED <<self, event, arrival, audio_bytes, sent, returned, nevents,
                 samples_per_chunk, engineVars>>

\* _handle_synthesize writes the next frame of the payload
WriteAudioChunk(c) ==
  /\ pc[c] = "frames"
  /\ ~FramesDone(audio_bytes[c], sent[c])
  /\ out' = Upd(out, c,
                Append(out[c],
                       AudioChunkNote(sent[c],
                                      FrameEnd(samples_per_chunk,
                                               audio_bytes[c], sent[c]))))
  /\ sent' = Upd(sent, c, FrameEnd(samples_per_chunk, audio_bytes[c],
                                   sent[c]))
  /\ UNCHANGED <<self, pc, event, arrival, audio_bytes, handled, raised,
                 returned, lock, nevents, samples_per_chunk, engineVars>>

\* _handle_synthesize writes AudioStop and returns True
WriteAudioStop(c) ==
  /\ pc[c] = "frames"
  /\ FramesDone(audio_bytes[c], sent[c])
  /\ out' = Upd(out, c, Append(out[c], AudioStopNote))
  /\ handled' = Upd(handled, c, Close(handled[c], "audio", Len(out[c]) + 1,
                                      audio_bytes[c]))
  /\ Continue(c)
  /\ UNCHANGED <<self, event, arrival, audio_bytes, sent, raised, returned,
                 lock, nevents, samples_per_chunk, engineVars>>

Next ==
  \/ \E c \in Conns : \E ev \in Sends(c, DescribeEvents) :
       HandleDescribe(c, ev)
  \/ \E c \in Conns : \E ev \in Sends(c, SynthesizeEvents) :
       HandleSynthesize(c, ev)
  \/ \E c \in Conns : \E ev \in Sends(c, SynthesizeStartEvents) :
       HandleSynthesizeStart(c, ev)
  \/ \E c \in Conns : \E ev \in Sends(c, SynthesizeChunkEvents) :
       HandleSynthesizeChunk(c, ev)
  \/ \E c \in Conns : \E ev \in Sends(c, SynthesizeStopEvents) :
       HandleSynthesizeStop(c, ev)
  \/ \E c \in Conns : \E ev \in Sends(c, UnexpectedEvents) :
       HandleUnexpected(c, ev)
  \/ \E c \in Conns : NextSentence(c)
  \/ \E c \in Conns : _handle_synthesize(c)
  \/ \E c \in Conns : AcquireLock(c)
  \/ \E c \in Conns : \E n \in AudioLengths : SynthesizeReturns(c, n)
  \/ \E c \in Conns : SynthesizeRaises(c)
  \/ \E c \in Conns : WriteAudioChunk(c)
  \/ \E c \in Conns : WriteAudioStop(c)
  \/ \E c \in Conns : WriteSynthesizeStopped(c)

\* ------------------------------------------------------------------------
\* Specifications
\* ------------------------------------------------------------------------
\* a new engine, no handler having received anything, samples_per_chunk at
\* the default of --samples-per-chunk
EngineSpecInit == EngineInit /\ HandlerStart /\ samples_per_chunk = 1024

\* the engine alone, fed by one consumer that drains every generator
EngineSpec == EngineSpecInit /\ [][EngineNext]_vars

\* new handlers, samples_per_chunk as configured
Init == EngineInit /\ HandlerInit

\* the server: the handlers of the connections and the gate they share
Spec == Init /\ [][Next]_vars

\* the call of _synthesize_thread of connection c returns or raises
EngineCallEnds(c) ==
  \/ \E n \in AudioLengths : SynthesizeReturns(c, n)
  \/ SynthesizeRaises(c)

\* every engine call ends, and the event loop runs the waiter the gate
\* has been handed to
Fairness ==
  \A c \in Conns :
    /\ WF_vars(EngineCallEnds(c))
    /\ WF_vars(AcquireLock(c))

\* the server with engine calls that end and a fair event loop
LiveSpec == Init /\ [][Next]_vars /\ Fairness

\* ------------------------------------------------------------------------
\* Claims
\* ------------------------------------------------------------------------
\* C1 (as claimed): every pass of the loop of add_chunk that applies a
\* forced hard-limit cut leaves the pending buffer strictly shorter than it
\* found it, so the loop ends after finitely many passes.
C1_ForcedCutShortens ==
  last.kind = "forced" => Len(engine.buffer) < Len(last.before)

\* the stream has been fed and finish() called once on it
StreamFinished == fin.calls = 1 /\ fed # <<>>

\* no forced cut came up, neither chunk by chunk nor on the whole text
NoForcedSplit == ~forcedCuts /\ ~WholeTextRun(fed).forced

\* the text up to index p ends with a terminator and optional whitespace
EndsAtTerminator(text, p) ==
  LET b == SkipWsBack(text, p) IN b >= 1 /\ text[b] \in Terminators

\* C2 (as claimed): for a text without forced split, feeding it chunk by
\* chunk and calling finish() gives the same units as feeding it as one
\* chunk and calling finish().
C2_ChunkIndependence ==
  (StreamFinished /\ NoForcedSplit)
    => WithFinal(units, fin.text) = WholeTextRun(fed).units

\* C2 (amended): the same, for the splits in which no chunk but the last
\* ends with a terminator (. ! ? ...) followed by optional whitespace.
C2_ChunkIndependenceAwayFromTerminators ==
  (/\ StreamFinished
   /\ NoForcedSplit
   /\ \A p \in chunkEnds : ~EndsAtTerminator(fed, p))
    => WithFinal(units, fin.text) = WholeTextRun(fed).units

\* C2 witness: a finished stream of several chunks, none ending at a
\* terminator, with two cuts and a yielded unit
C2_Witness ==
  /\ StreamFinished
  /\ NoForcedSplit
  /\ chunkEnds # {}
  /\ \A p \in chunkEnds : ~EndsAtTerminator(fed, p)
  /\ Cardinality(cutEnds) >= 2
  /\ units # <<>>

\* the connections whose synthesis call is inside _synthesize_thread
InEngine == {c \in Conns : pc[c] = "engine"}

\* C3: at most one invocation of the synthesis engine is in progress at
\* any time, over all connections: while one connection is inside
\* _synthesize_thread the gate is held, and the call of another connection
\* waits at the gate until the first has returned or raised.
C3_MutualExclusion ==
  /\ Cardinality(InEngine) <= 1
  /\ InEngine # {} => lock.locked
  /\ \A c \in Conns : pc[c] = "gate" <=>
       \E i \in 1..Len(lock.waiters) : lock.waiters[i] = c

\* C3 witness: one connection is inside the engine while the other one
\* waits at the gate
C3_Witness ==
  \E c, d \in Conns : c # d /\ pc[c] = "engine" /\ pc[d] = "gate"

\* the types of the notifications that make up an audio block
AudioTypes == {"audio-start", "audio-chunk", "audio-stop"}

\* the notifications notes are a sequence of complete blocks (audio-start,
\* frames, audio-stop) with other notifications between the blocks only;
\* the last block is still open iff open
CompleteBlocks(notes, open) ==
  /\ \A i \in 1..Len(notes) :
       /\ notes[i].type \in {"audio-start", "audio-chunk"} =>
            IF i = Len(notes) THEN open
            ELSE notes[i + 1].type \in {"audio-chunk", "audio-stop"}
       /\ notes[i].type \in {"audio-chunk", "audio-stop"} =>
            i > 1 /\ notes[i - 1].type \in {"audio-start", "audio-chunk"}
  /\ open => notes # <<>>
               /\ notes[Len(notes)].type \in {"audio-start", "audio-chunk"}

\* the number of notifications of the given type among notes
Count(notes, type) ==
  Cardinality({i \in 1..Len(notes) : notes[i].type = type})

\* the texts of the _handle_synthesize calls of the log h, in order
Texts(h) == [i \in 1..Len(h) |-> h[i].text]

\* s is an initial part of t
IsPrefix(s, t) == Len(s) <= Len(t) /\ \A i \in 1..Len(s) : s[i] = t[i]

\* connection c handles, or has just handled, a text chunk of its stream
InChunk(c) ==
  /\ event[c].type = "synthesize-chunk"
  /\ event[c].wellformed
  /\ AssertStream(arrival[c])

\* the units the engine of connection c yields for the chunk of event
ChunkSentences(c) == Sentences(add_chunk(arrival[c].sbd[1], event[c].text))

\* the units handed to _handle_synthesize for the chunk so far are the
\* first units the engine yields for it, all of them once the event is over
InOrderYielded(c) ==
  IF pc[c] = "idle"
    THEN Texts(handled[c]) = ChunkSentences(c)
    ELSE IsPrefix(Texts(handled[c]), ChunkSentences(c))

\* the calls of connection c follow each other: each call writes its
\* notifications after those of the call before it, and a call that got
\* audio writes exactly one block, from audio-start to audio-stop
OneBlockPerUnit(c) ==
  /\ \A i \in 1..Len(handled[c]) :
       /\ i > 1 => handled[c][i].first > handled[c][i - 1].last
       /\ handled[c][i].result = "audio" =>
            /\ out[c][handled[c][i].first].type = "audio-start"
            /\ out[c][handled[c][i].last].type = "audio-stop"
            /\ Count(SubSeq(out[c], handled[c][i].first, handled[c][i].last),
                     "audio-start") = 1
       /\ handled[c][i].result \in {"skipped", "none", "failed"} =>
            \A k \in handled[c][i].first..handled[c][i].last :
              out[c][k].type \notin AudioTypes
  /\ Count(out[c], "audio-start") =
       Cardinality({i \in 1..Len(handled[c]) :
                      handled[c][i].result = "audio"})
         + (IF pc[c] = "frames" THEN 1 ELSE 0)

\* C4: the units yielded for a text chunk are synthesized in the order
\* yielded; the notifications of a connection form complete blocks
\* (audio-started, frames, audio-stopped), one per unit that produced
\* audio, a block being open only while its unit is being written; and a
\* new event is taken only by a connection that has finished the event
\* before, all blocks of which are then written.
C4_OrderedCompleteBlocks ==
  /\ [](\A c \in Conns :
          /\ CompleteBlocks(out[c], pc[c] = "frames")
          /\ OneBlockPerUnit(c)
          /\ InChunk(c) => InOrderYielded(c)
          /\ pc[c] = "idle" =>
               \A i \in 1..Len(handled[c]) : handled[c][i].result # "pending")
  /\ [][nevents' # nevents =>
          \A c \in Conns :
            pc[c] # "idle" => /\ out'[c] = out[c]
                              /\ handled'[c] = handled[c]
                              /\ pc'[c] = pc[c]]_vars

\* C4 witness: a text chunk has been handled whose two units both got
\* audio, the second with several frames
C4_Witness ==
  \E c \in Conns :
    /\ InChunk(c)
    /\ pc[c] = "idle"
    /\ Len(handled[c]) = 2
    /\ handled[c][1].result = "audio"
    /\ handled[c][2].result = "audio"
    /\ handled[c][2].last > handled[c][2].first + 2

\* connection c has handled a text chunk or a stream stop that arrived
\* while its session was Idle
OutOfOrderHandled(c) ==
  /\ pc[c] = "idle"
  /\ event[c].type \in {"synthesize-chunk", "synthesize-stop"}
  /\ ~arrival[c].is_streaming

\* C5 (as claimed): a text chunk or a stream stop received while Idle
\* resets the session to Idle and sends one error notification, and
\* handle_event reports that the connection should continue.
C5_OutOfOrderKeepsConnection ==
  \A c \in Conns :
    OutOfOrderHandled(c) =>
      /\ self[c] = Idle
      /\ Count(out[c], "error") = 1
      /\ returned[c]

\* connection c has finished an event of one of the four synthesis types
SynthesisEventDone(c) ==
  /\ pc[c] = "idle"
  /\ event[c].type \in {"synthesize", "synthesize-start", "synthesize-chunk",
                        "synthesize-stop"}

\* C6 (as claimed): whenever an exception is raised while handling a
\* one-shot, stream-start, text-chunk or stream-stop event, exactly one
\* error notification is written and the event ends with the session Idle,
\* without engine and without recorded request.
C6_AnyExceptionResets ==
  \A c \in Conns :
    (SynthesisEventDone(c) /\ raised[c] # {}) =>
      Count(out[c], "error") = 1 /\ self[c] = Idle

\* C6 (amended): the same for the exceptions that reach the `except
\* Exception` of handle_event (a failed assertion, an event that cannot be
\* parsed); an exception of the engine is caught inside synthesize and
\* leaves the session as it is.
C6_HandlerExceptionResets ==
  \A c \in Conns :
    (SynthesisEventDone(c) /\ "handle_event" \in raised[c]) =>
      Count(out[c], "error") = 1 /\ self[c] = Idle

\* C6 witness: a text chunk that cannot be parsed has been handled by a
\* session that was Streaming with held text
C6_Witness ==
  \E c \in Conns :
    /\ SynthesisEventDone(c)
    /\ "handle_event" \in raised[c]
    /\ arrival[c].is_streaming
    /\ arrival[c].sbd[1].held_sentence # <<>>
    /\ self[c] = Idle

\* C7: when the synthesizer fails for a unit of a text chunk, exactly one
\* error notification and no audio notification is written for that unit,
\* the failure leaves the session Streaming with the same engine, pending
\* buffer and held text, and the loop goes on: once the event is over,
\* every unit yielded for the chunk has been synthesized, in order.
C7_FailureScopedToUnit ==
  /\ [](\A c \in Conns :
          InChunk(c) =>
            /\ \A i \in 1..Len(handled[c]) :
                 handled[c][i].result = "failed" =>
                   SubSeq(out[c], handled[c][i].first, handled[c][i].last)
                     = <<SynthesisFailedNote>>
            /\ pc[c] = "idle" =>
                 /\ Texts(handled[c]) = ChunkSentences(c)
                 /\ \A i \in 1..Len(handled[c]) :
                      handled[c][i].result # "pending"
                 /\ self[c].is_streaming)
  /\ [][\A c \in Conns :
          (InChunk(c) /\ pc[c] = "engine" /\ pc'[c] \notin {"engine", "frames"})
            => /\ self'[c] = self[c]
               /\ self[c].is_streaming
               /\ pc'[c] = "loop"]_vars

\* C7 witness: a text chunk with two units has been handled, the first
\* unit failed and the second one got audio
C7_Witness ==
  \E c \in Conns :
    /\ InChunk(c)
    /\ pc[c] = "idle"
    /\ Len(handled[c]) = 2
    /\ handled[c][1].result = "failed"
    /\ handled[c][2].result = "audio"
    /\ handled[c][2].audio > 0

\* C8 (as claimed): a unit whose synthesis yields no audio (its text
\* normalizes to nothing, or the engine returns zero bytes) gets no
\* audio-started, no frame, no audio-stopped and no error notification.
C8_NoAudioIsSilent ==
  \A c \in Conns :
    \A i \in 1..Len(handled[c]) :
      (\/ handled[c][i].result = "none"
       \/ handled[c][i].result = "audio" /\ handled[c][i].audio = 0)
        => handled[c][i].last < handled[c][i].first

\* C9 (as claimed): the period of a decimal split across two chunks (one
\* chunk ends with digit and period, the next begins with a digit) is never
\* the last character of a fragment cut by add_chunk, natural or forced.
C9_DecimalPeriodNeverCut == cutEnds \cap decimalDots = {}

\* C10: every unit yielded by add_chunk has at least MERGE_BUFFER_LIMIT
\* characters; shorter text leaves the engine only through finish().
C10_YieldedUnitsReachLimit ==
  /\ \A i \in 1..Len(units) : Len(units[i]) >= MERGE_BUFFER_LIMIT
  /\ engine.gen = "yield" => Len(engine.held_sentence) >= MERGE_BUFFER_LIMIT

\* C10 witness: a short fragment was held and merged into a yielded unit,
\* and finish() returned a text shorter than the limit
C10_Witness ==
  /\ units # <<>>
  /\ Cardinality(cutEnds) >= 2
  /\ fin.calls = 1
  /\ fin.text # <<>>
  /\ Len(fin.text) < MERGE_BUFFER_LIMIT

\* the last completed pass of add_chunk applied a forced cut, and the
\* engine has not been touched since
ForcedCutJustMade == last.kind = "forced" /\ fin.calls = 0

\* the positions, counted from 1, of the spaces among the first HARD_LIMIT
\* characters of buf
SpacesWithinLimit(buf) == {k \in 1..HARD_LIMIT : buf[k] = " "}

\* C11: a forced cut is made only on a buffer longer than HARD_LIMIT in
\* which the matcher finds no valid terminator; it is made at the index of
\* the last space among the first HARD_LIMIT characters if there is one,
\* else at index HARD_LIMIT; so the fragment has at most HARD_LIMIT
\* characters, and the buffer is left with the rest, in its order.
C11_ForcedSplitPosition ==
  ForcedCutJustMade =>
    /\ Len(last.before) > HARD_LIMIT
    /\ BoundarySearch(last.before) = 0
    /\ last.pos = IF SpacesWithinLimit(last.before) = {}
                    THEN HARD_LIMIT
                    ELSE MaxOf(SpacesWithinLimit(last.before)) - 1
    /\ last.pos <= HARD_LIMIT
    /\ engine.buffer = SubSeq(last.before, last.pos + 1, Len(last.before))

\* C11 witness: a forced cut has been made at a space inside the limit
C11_Witness ==
  /\ ForcedCutJustMade
  /\ last.pos > 0
  /\ last.pos < HARD_LIMIT
  /\ last.before[last.pos + 1] = " "

\* what a consumer gets by draining the generator of e to its end: the
\* units and the engine left behind
RECURSIVE Drain(_, _)
RECURSIVE DrainAfter(_, _)
Drain(e, us) == DrainAfter(NextUnit(e), us)

DrainAfter(r, us) ==
  IF r.e.gen = "yield" THEN Drain(r.e, us \o r.unit)
  ELSE [e |-> r.e, units |-> us]

\* the end of the chunk of text that begins after index from, the chunks
\* of text ending at the indices ends and at its last character
ChunkEnd(text, ends, from) == MinOf({p \in ends : p > from} \cup {Len(text)})

\* the engine e is fed the rest of text after index from, chunk by chunk,
\* each generator drained: the units yielded and the engine left behind
RECURSIVE Replay(_, _, _, _, _)
RECURSIVE ReplayAfter(_, _, _, _)
Replay(e, us, text, ends, from) ==
  IF from >= Len(text) THEN [e |-> e, units |-> us]
  ELSE ReplayAfter(Drain(add_chunk(e, SubSeq(text, from + 1,
                                             ChunkEnd(text, ends, from))),
                         us),
                   text, ends, ChunkEnd(text, ends, from))

ReplayAfter(d, text, ends, from) == Replay(d.e, d.units, text, ends, from)

\* the chunks fed since the last finish() came after a finish()
AfterFinish_Period == nchunks > Cardinality(chunkEnds) + 1

\* C12: finish() leaves the engine as a newly constructed one, pending
\* buffer and held text empty; a finish() repeated at once returns the
\* empty text; and the chunks fed after a finish() yield the units, and
\* leave the engine, that a new engine gives for the same chunks.
C12_FinishResets ==
  /\ fin.calls >= 1 =>
       /\ engine.buffer = <<>>
       /\ engine.held_sentence = <<>>
       /\ engine = SentenceBoundaryDetector
  /\ fin.calls >= 2 => fin.text = <<>>
  /\ (AfterFinish_Period /\ fin.calls = 0 /\ engine.gen = "idle") =>
       Replay(SentenceBoundaryDetector, <<>>, fed, chunkEnds, 0)
         = [e |-> engine, units |-> units]

\* C12 witness: after a finish(), two chunks have been fed and a unit
\* yielded, text being held or pending
C12_Witness ==
  /\ AfterFinish_Period
  /\ fin.calls = 0
  /\ engine.gen = "idle"
  /\ chunkEnds # {}
  /\ units # <<>>

\* connection c handles, or has just handled, a stream stop that arrived
\* while its session was Streaming
InStop(c) ==
  /\ event[c].type = "synthesize-stop"
  /\ AssertStream(arrival[c])

\* what finish() answers on the engine connection c had when the stream
\* stop arrived
FinishAtStop(c) == finish(arrival[c].sbd[1])

\* C13: for a stream stop received while Streaming, finish() is called
\* once on the engine of the stream; _handle_synthesize is called, once
\* and with the text finish() returned, iff that text is not empty; one
\* stream-ended notification is written, as the last notification of the
\* event, after the audio of the final unit; and the event ends with the
\* session Idle, the engine discarded.
C13_StreamStopProtocol ==
  \A c \in Conns :
    InStop(c) =>
      /\ Texts(handled[c]) \in
           {<<>>, IF FinishAtStop(c).final_text # <<>>
                    THEN <<FinishAtStop(c).final_text>>
                    ELSE <<>>}
      /\ \A i \in 1..Len(handled[c]) : handled[c][i].result # "skipped"
      /\ pc[c] # "idle" =>
           /\ self[c].sbd = <<FinishAtStop(c).e>>
           /\ Count(out[c], "synthesize-stopped") = 0
      /\ pc[c] \in {"idle", "stopped"} =>
           /\ Len(handled[c]) =
                IF FinishAtStop(c).final_text # <<>> THEN 1 ELSE 0
           /\ \A i \in 1..Len(handled[c]) : handled[c][i].result # "pending"
      /\ pc[c] = "idle" =>
           /\ Count(out[c], "synthesize-stopped") = 1
           /\ out[c][Len(out[c])] = SynthesizeStoppedNote
           /\ CompleteBlocks(out[c], FALSE)
           /\ self[c] = Idle
           /\ returned[c]

\* C13 witness: a stream stop has been handled whose final unit got
\* audio in frames, the stream-ended notification coming after it
C13_Witness ==
  \E c \in Conns :
    /\ InStop(c)
    /\ pc[c] = "idle"
    /\ Len(handled[c]) = 1
    /\ handled[c][1].result = "audio"
    /\ handled[c][1].audio > 0
    /\ out[c][Len(out[c]) - 1] = AudioStopNote

\* C14: a one-shot request received while the session is Streaming is
\* ignored: no _handle_synthesize call, no notification, and the session
\* state, the recorded voice, the pending buffer and the held text are
\* left as they were.
C14_OneShotIgnoredWhileStreaming ==
  \A c \in Conns :
    (event[c].type = "synthesize" /\ arrival[c].is_streaming) =>
      /\ pc[c] = "idle"
      /\ handled[c] = <<>>
      /\ out[c] = <<>>
      /\ raised[c] = {}
      /\ self[c] = arrival[c]
      /\ returned[c]

\* C14 witness: a one-shot request with text has been handled by a
\* session that was Streaming with held text
C14_Witness ==
  \E c \in Conns :
    /\ event[c].type = "synthesize"
    /\ event[c].text # <<>>
    /\ event[c].wellformed
    /\ arrival[c].is_streaming
    /\ arrival[c].sbd[1].held_sentence # <<>>
    /\ pc[c] = "idle"

\* "Hello, World is great."
HelloCommaWorld ==
  <<"H","e","l","l","o",","," ","W","o","r","l","d"," ","i","s"," ","g",
    "r","e","a","t",".">>

\* held with its last character rewritten from '.' to ',' if it is a
\* period, one space, then the fragment
MergedText(held, fragment) ==
  [i \in 1..(Len(held) + 1 + Len(fragment)) |->
     IF i < Len(held) THEN held[i]
     ELSE IF i = Len(held) THEN (IF held[i] = "." THEN "," ELSE held[i])
     ELSE IF i = Len(held) + 1 THEN " "
     ELSE fragment[i - Len(held) - 1]]

\* the engine connection c had when the event arrived held text
HeldAtArrival(c) ==
  arrival[c].sbd # <<>> /\ arrival[c].sbd[1].held_sentence # <<>>

\* C15: a cleaned fragment merged into held text that is not empty gives
\* the held text, its final '.' rewritten to ',', one space, then the
\* fragment: so it is for the cleaned text of every chunk and the text an
\* engine holds, and for the text finish() returns at a stream stop when
\* text is held and text is pending. A stream start followed by the chunk
\* "Hello. World is great." gives one unit, "Hello, World is great.", and
\* one audio-started and one audio-stopped when the synthesizer returns
\* audio for it, none otherwise.
C15_MergeJoinRule ==
  \A c \in Conns :
    /\ HeldAtArrival(c) =>
         \A t \in StreamChunks :
           post_clean_sentence(t) # <<>> =>
             JoinHeld(arrival[c].sbd[1].held_sentence, post_clean_sentence(t))
               = MergedText(arrival[c].sbd[1].held_sentence,
                            post_clean_sentence(t))
    /\ (/\ InStop(c)
        /\ HeldAtArrival(c)
        /\ post_clean_sentence(arrival[c].sbd[1].buffer) # <<>>
        /\ handled[c] # <<>>) =>
         handled[c][1].text =
           MergedText(arrival[c].sbd[1].held_sentence,
                      post_clean_sentence(arrival[c].sbd[1].buffer))
    /\ (/\ InChunk(c)
        /\ arrival[c].sbd[1] = SentenceBoundaryDetector
        /\ event[c].text = HelloWorld
        /\ pc[c] = "idle") =>
         /\ Texts(handled[c]) = <<HelloCommaWorld>>
         /\ Count(out[c], "audio-start") =
              IF handled[c][1].result = "audio" THEN 1 ELSE 0
         /\ Count(out[c], "audio-stop") = Count(out[c], "audio-start")

\* C15 witness: a stream start and the chunk "Hello. World is great."
\* have been handled, the unit got audio
C15_Witness ==
  \E c \in Conns :
    /\ InChunk(c)
    /\ arrival[c].sbd[1] = SentenceBoundaryDetector
    /\ event[c].text = HelloWorld
    /\ pc[c] = "idle"
    /\ handled[c][1].result = "audio"
    /\ handled[c][1].audio > 0

\* the frame size F = samples_per_chunk * sample_width * channels
FrameSize == samples_per_chunk * DEFAULT_SAMPLE_WIDTH * DEFAULT_CHANNELS

\* the notifications written between the audio-started and the
\* audio-stopped of the call h of connection c
Frames(c, h) == SubSeq(out[c], h.first + 1, h.last - 1)

\* the frames fs are consecutive slices of a payload of n bytes, none
\* empty, that make up the payload
ConsecutiveSlices(fs, n) ==
  /\ fs # <<>>
  /\ \A k \in 1..Len(fs) :
       /\ fs[k].type = "audio-chunk"
       /\ fs[k].lo = (IF k = 1 THEN 0 ELSE fs[k - 1].hi)
       /\ fs[k].hi > fs[k].lo
  /\ fs[Len(fs)].hi = n

\* C16: for a payload that is not empty, the frames written between
\* audio-started and audio-stopped are, if F > 0, the consecutive slices
\* of F bytes of the payload, in order, the last one holding what is left
\* (at most F bytes); if F <= 0, one frame holding the whole payload.
C16_AudioFraming ==
  \A c \in Conns :
    \A i \in 1..Len(handled[c]) :
      (handled[c][i].result = "audio" /\ handled[c][i].audio > 0) =>
        /\ ConsecutiveSlices(Frames(c, handled[c][i]), handled[c][i].audio)
        /\ IF FrameSize > 0
             THEN \A k \in 1..Len(Frames(c, handled[c][i])) :
                    /\ Frames(c, handled[c][i])[k].lo = (k - 1) * FrameSize
                    /\ k < Len(Frames(c, handled[c][i])) =>
                         Frames(c, handled[c][i])[k].hi = k * FrameSize
                    /\ Frames(c, handled[c][i])[k].hi <= k * FrameSize
             ELSE Len(Frames(c, handled[c][i])) = 1

\* C16 witness: a payload longer than a frame, and not a multiple of the
\* frame size, has been written
C16_Witness ==
  \E c \in Conns :
    \E i \in 1..Len(handled[c]) :
      /\ handled[c][i].result = "audio"
      /\ FrameSize > 0
      /\ handled[c][i].audio > FrameSize
      /\ handled[c][i].audio % FrameSize # 0

\* the voice asked for by the request connection c handles: that of the
\* one-shot request, or the one recorded when the stream was started
VoiceAsked(c) ==
  IF event[c].type = "synthesize" THEN event[c].voice
  ELSE arrival[c]._synthesize[1].voice

\* C17: every synthesis call is made with the voice asked for if it is a
\* known voice, with the configured default voice if it is unknown or
\* not given; the voice recorded at stream start is the one the stream
\* start asked for, it stays recorded while the stream lasts and is the
\* one resolved for every unit; so the synthesizer is only called with a
\* known voice.
C17_VoiceResolution ==
  \A c \in Conns :
    /\ \A i \in 1..Len(handled[c]) :
         handled[c][i].result # "skipped" =>
           /\ handled[c][i].speaker =
                IF VoiceAsked(c) \in SILERO_SPEAKERS
                  THEN VoiceAsked(c)
                  ELSE DEFAULT_SPEAKER_NAME
           /\ handled[c][i].speaker \in SILERO_SPEAKERS
    /\ (event[c].type = "synthesize-start" /\ pc[c] = "idle") =>
         self[c]._synthesize = <<[text |-> <<>>, voice |-> event[c].voice]>>
    /\ ((InChunk(c) \/ InStop(c)) /\ self[c]._synthesize # <<>>) =>
         self[c]._synthesize[1].voice = arrival[c]._synthesize[1].voice

\* C17 witness: the two units of a chunk have been synthesized with the
\* default voice, the stream having asked for an unknown voice
C17_Witness ==
  \E c \in Conns :
    /\ InChunk(c)
    /\ pc[c] = "idle"
    /\ arrival[c]._synthesize[1].voice \notin SILERO_SPEAKERS \cup {NoVoice}
    /\ Len(handled[c]) = 2
    /\ handled[c][1].speaker = DEFAULT_SPEAKER_NAME
    /\ handled[c][2].speaker = DEFAULT_SPEAKER_NAME

\* connection c handles a one-shot request with an empty text that
\* arrived while the session was idle
EmptyOneShot(c) ==
  /\ event[c].type = "synthesize"
  /\ event[c].wellformed
  /\ event[c].text = <<>>
  /\ ~arrival[c].is_streaming

\* C18: a one-shot request with an empty text received while idle makes
\* no synthesis call, takes no part in the gate, writes no notification
\* at all (no audio-started, audio frame, audio-stopped or error), raises
\* nothing, leaves the session as it was, idle, and handle_event returns
\* True.
C18_EmptyOneShot ==
  \A c \in Conns :
    EmptyOneShot(c) =>
      /\ \A i \in 1..Len(handled[c]) : handled[c][i].result = "skipped"
      /\ pc[c] \in {"idle", "call"}
      /\ out[c] = <<>>
      /\ raised[c] = {}
      /\ returned[c]
      /\ self[c] = arrival[c]
      /\ ~self[c].is_streaming

\* C18 witness: the call of _handle_synthesize for the empty request has
\* returned
C18_Witness ==
  \E c \in Conns :
    /\ EmptyOneShot(c)
    /\ pc[c] = "idle"
    /\ Len(handled[c]) = 1
    /\ handled[c][1].result = "skipped"

\* C19: after every completed add_chunk call (the generator has run to
\* its end), whatever the chunks and their punctuation, the pending
\* buffer holds at most HARD_LIMIT characters.
C19_BoundedBuffer ==
  (nchunks > 0 /\ engine.gen = "idle") => Len(engine.buffer) <= HARD_LIMIT

\* C20: from construction, or from the first add_chunk after a finish(),
\* the raw fragments cut so far, in order, followed by the pending buffer
\* are the chunks appended so far, in order: after every completed
\* add_chunk call, and also between the passes of a call in progress; no
\* character is dropped, duplicated or reordered by cutting.
C20_TextConservation ==
  fin.calls = 0 => cutText \o engine.buffer = fed

\* C20 witness: add_chunk calls have completed with two cuts or more made
\* over two chunks or more, and text is left pending
C20_Witness ==
  /\ fin.calls = 0
  /\ engine.gen = "idle"
  /\ nchunks >= 2
  /\ Cardinality(cutEnds) >= 2
  /\ engine.buffer # <<>>
  /\ Len(cutText) + Len(engine.buffer) = Len(fed)

\* a terminator at index i of s that is preceded neither by a whole word
\* of 1 to 3 letters nor by lowercase letter, period, lowercase letter
Candidate(s, i) ==
  /\ s[i] \in Terminators
  /\ ~ShortWordBefore(s, i)
  /\ ~DotBetweenLower(s, i)

\* the character at i is followed by whitespace and then an uppercase
\* letter, or is the last character of s
FollowedByUpperOrEnd(s, i) ==
  \/ i = Len(s)
  \/ /\ s[i + 1] \in Whitespace
     /\ SkipWs(s, i + 1) <= Len(s)
     /\ s[SkipWs(s, i + 1)] \in Lu

\* the character at i is followed by whitespace and then an uppercase
\* letter, or by nothing but whitespace up to the end of s
FollowedByUpperOrBlankEnd(s, i) ==
  \/ SkipWs(s, i + 1) > Len(s)
  \/ /\ s[i + 1] \in Whitespace
     /\ s[SkipWs(s, i + 1)] \in Lu

Accepted(s, i) == Candidate(s, i) /\ FollowedByUpperOrEnd(s, i)

AcceptedBlankEnd(s, i) == Candidate(s, i) /\ FollowedByUpperOrBlankEnd(s, i)

\* a pass of add_chunk of the given kind on the buffer s, cutting at pos,
\* follows the rule for the terminators Acc accepts: a natural cut ends
\* at the earliest accepted terminator that is not a period ending the
\* buffer after a digit; the pass breaks off at the decimal guard when
\* the earliest accepted terminator is such a period
FollowsCutRule(Acc(_, _), kind, s, pos) ==
  /\ kind = "natural" =>
       /\ \E i \in 1..Len(s) : Acc(s, i) /\ ~DecimalGuard(s, i)
       /\ pos = MinOf({i \in 1..Len(s) : Acc(s, i) /\ ~DecimalGuard(s, i)})
  /\ kind = "guard" =>
       /\ \E i \in 1..Len(s) : Acc(s, i)
       /\ DecimalGuard(s, MinOf({i \in 1..Len(s) : Acc(s, i)}))

\* the last pass completed, and the pass suspended at a yield if it is
\* not a forced one, follow the rule for Acc; after the guard's break the
\* call is over and the buffer is as the pass found it
PassesFollowCutRule(Acc(_, _)) ==
  /\ FollowsCutRule(Acc, last.kind, last.before, last.pos)
  /\ (engine.gen = "yield" /\ ~engine.forced) =>
       FollowsCutRule(Acc, "natural", engine.buffer, engine.cut)
  /\ (last.kind = "guard" /\ fin.calls = 0) =>
       (engine.gen = "idle" /\ engine.buffer = last.before)

BetweenEvents(c) == pc[c] = "idle"

\* C22: between two handled events of a connection, is_streaming is true
\* if and only if an engine exists, if and only if a recorded stream
\* request exists; the session is streaming after a handled stream start,
\* idle after a stream stop and after an exception caught by
\* handle_event, and as it was after any other event.
C22_SessionConsistency ==
  \A c \in Conns :
    BetweenEvents(c) =>
      /\ self[c].is_streaming <=> self[c].sbd # <<>>
      /\ self[c].is_streaming <=> self[c]._synthesize # <<>>
      /\ self[c].is_streaming <=>
           IF "handle_event" \in raised[c] THEN FALSE
           ELSE IF event[c].type = "synthesize-start" THEN TRUE
           ELSE IF event[c].type = "synthesize-stop" THEN FALSE
           ELSE arrival[c].is_streaming

\* C22 witness: a stream was open when an event arrived whose handling
\* raised; the session is idle again, without engine or stream request
C22_Witness ==
  \E c \in Conns :
    /\ BetweenEvents(c)
    /\ arrival[c].is_streaming
    /\ arrival[c].sbd # <<>>
    /\ "handle_event" \in raised[c]
    /\ self[c] = Idle

\* C23: once the generator of an add_chunk call has run to its end, the
\* held text (the one held_sentence of the engine) is empty or shorter
\* than MERGE_BUFFER_LIMIT; after finish() it is empty.
C23_HeldBelowThreshold ==
  /\ engine.gen = "idle" => Len(engine.held_sentence) < MERGE_BUFFER_LIMIT
  /\ fin.calls > 0 => engine.held_sentence = <<>>

\* C23 witness: an add_chunk call is over, a unit of threshold length or
\* more has been yielded and a shorter text is held
C23_Witness ==
  /\ engine.gen = "idle"
  /\ nchunks > 0
  /\ fin.calls = 0
  /\ engine.held_sentence # <<>>
  /\ \E i \in 1..Len(units) : Len(units[i]) >= MERGE_BUFFER_LIMIT

\* connection c handles a stream start that arrived while a stream was
\* open
RestartedStream(c) ==
  /\ event[c].type = "synthesize-start"
  /\ arrival[c].is_streaming

\* C24: a stream start received while streaming is handled in one step
\* that writes no notification, makes no synthesis call and raises
\* nothing; it leaves the session streaming with one engine, new and
\* empty, and with the voice of the new stream start recorded: nothing
\* of the old engine's pending buffer and held text is kept, so none of
\* it can be synthesized later.
C24_RestartDiscardsStream ==
  \A c \in Conns :
    RestartedStream(c) =>
      /\ pc[c] = "idle"
      /\ out[c] = <<>>
      /\ handled[c] = <<>>
      /\ raised[c] = {}
      /\ returned[c]
      /\ self[c].is_streaming
      /\ self[c].sbd = <<SentenceBoundaryDetector>>
      /\ self[c]._synthesize = <<[text |-> <<>>, voice |-> event[c].voice]>>

\* C24 witness: the stream open at arrival had text pending in its engine
\* and another voice recorded
C24_Witness ==
  \E c \in Conns :
    /\ RestartedStream(c)
    /\ pc[c] = "idle"
    /\ \/ arrival[c].sbd[1].held_sentence # <<>>
       \/ arrival[c].sbd[1].buffer # <<>>
    /\ arrival[c]._synthesize[1].voice # event[c].voice
    /\ self[c].sbd[1].held_sentence = <<>>
    /\ self[c].sbd[1].buffer = <<>>

\* connection c waits at the gate
AtGate(c) == pc[c] = "gate"

\* connection c is inside synthesize, before or within the engine call
InSynthesize(c) == pc[c] \in {"gate", "engine"}

\* C25: the gate is held only while a connection is inside the engine
\* call: it is released whenever the call returns or raises, also when
\* the call of a connection has failed; with engine calls that end and a
\* fair event loop, every connection that waits at the gate acquires it,
\* and every connection that has entered synthesize gets its result.
C25_GateReleaseAndProgress ==
  /\ [](lock.locked => InEngine # {})
  /\ \A c \in Conns : AtGate(c) ~> (pc[c] = "engine")
  /\ \A c \in Conns : InSynthesize(c) ~> ~InSynthesize(c)

\* C25 witness: the engine call of one connection has raised, and the
\* other connection holds the gate
C25_Witness ==
  \E c, d \in Conns :
    /\ c # d
    /\ "synthesize" \in raised[d]
    /\ handled[d] # <<>>
    /\ handled[d][Len(handled[d])].result = "failed"
    /\ pc[c] = "engine"
    /\ lock.locked

====
